---- MODULE Spec2Model ----
(***************************************************************************)
(* katjing: strongly typed money.                                          *)
(*                                                                         *)
(* Two revisions of the settlement core live in the repository:            *)
(*   - src/src/lib.rs : Money<V, C>, Amount<AV, C>, named costs, take and  *)
(*     pay_with, generic over the unsigned storage type of either side;    *)
(*   - src/src/price.rs, money.rs : Money<C>, Price<C> over MinorUnit,     *)
(*     pay and try_pay.                                                    *)
(* The currency is phantom data: mixing currencies does not compile, so    *)
(* every value below is of one and the same currency.                      *)
(***************************************************************************)
EXTENDS Integers, Naturals, Sequences, FiniteSets, TLC

VARIABLES money,    \* lib.rs: the Money<MV, C> the caller holds
          b0,       \* lib.rs: the value of the money when the current chain of pay_with began
          sumCost,  \* lib.rs: sum of the costs presented to pay_with in the current chain
          sumLeft,  \* lib.rs: sum of the left_to_pay values returned in the current chain
          chain,    \* lib.rs: number of pay_with calls in the current chain
          last,     \* lib.rs: the last call made, its arguments and what it returned
          wallet,   \* price.rs: the Money<C> the caller holds
          receipt,  \* price.rs: the last call made, its arguments and what it returned
          currency, \* price.rs: the currency C of the caller's Money<C> and Price<C>
          n         \* number of settlement calls made so far

vars == <<money, b0, sumCost, sumLeft, chain, last, wallet, receipt, currency, n>>

libVars == <<money, b0, sumCost, sumLeft, chain, last>>
priceVars == <<wallet, receipt>>

----------------------------------------------------------------------------
(* Bounds of the model *)

\* values 0..Small are drawn for every storage type, next to the values
\* around the maximum of each storage type
Small == 2
\* number of settlement calls in one behaviour
MaxCalls == 3
\* Price::new and Money::new are called with 0..MaxAmount major units
MaxAmount == 3

----------------------------------------------------------------------------
(* Storage types: the unsigned integer types, named by their bit width.
   take and pay_with are generic over the storage type and treat every
   width alike; u8 and u16 are kept at their real width, the wider types
   (u32, u64, u128, usize) have maxima beyond the integers the model checker
   computes with. *)

Widths == {8, 16}

Max(x, y) == IF x >= y THEN x ELSE y
Min(x, y) == IF x <= y THEN x ELSE y

\* MaxValue::max_value for an unsigned type of w bits
max_value(w) == 2^w - 1

\* Zero::zero
zero(w) == 0

\* the values drawn for a storage type of w bits: the small ones and the
\* ones next to the maximum of every storage type, as far as w bits hold them
Values(w) == { v \in (0..Small) \cup { max_value(x) + d : x \in Widths, d \in {-1, 0, 1} } :
                 v >= 0 /\ v <= max_value(w) }

\* the named kinds of cost declared with costs![(Price price), (Shipping shipping)]
Kinds == {"Price", "Shipping"}

----------------------------------------------------------------------------
(* lib.rs *)

\* Currency::create_money
create_money(w, value) == [w |-> w, v |-> value]

\* Currency::create_amount
create_amount(w, value) == [w |-> w, v |-> value]

\* $c(C::create_amount(value)): a cost of a named kind wrapping an amount
create_cost(kind, w, value) == [kind |-> kind, amount |-> create_amount(w, value)]

\* TryFrom / TryInto between unsigned integer types: the value when the
\* target type of w bits holds it, an error otherwise
try_into_truncating(value, w) == [ok |-> TRUE, val |-> value % 2^w]
try_into(value, w) ==
    IF value <= max_value(w) THEN [ok |-> TRUE, val |-> value]
                             ELSE [ok |-> FALSE, val |-> 0]

\* CheckedSub::checked_sub
checked_sub(x, y) ==
    IF y <= x THEN [some |-> TRUE, val |-> x - y]
              ELSE [some |-> FALSE, val |-> 0]

\* a panic of expect() with its message
Panic(msg) == [status |-> "panic", msg |-> msg]

\* Taken { remaining, taken }
Taken(remaining, taken) == [status |-> "ok", remaining |-> remaining, taken |-> taken]

\* amount.0.clone().try_into().unwrap_or_else(|_| MV::max_value())
money_needed_clamp_zero(mv, amount) ==
    LET conv == try_into(amount.v, mv)
    IN  IF conv.ok THEN conv.val ELSE zero(mv)
money_needed(mv, amount) ==
    LET conv == try_into(amount.v, mv)
    IN  IF conv.ok THEN conv.val ELSE max_value(mv)

\* the Less arm of take
take_less_swapped_sub(mv, av, needed, remaining_money) ==
    LET sub  == checked_sub(needed, remaining_money)
        back == try_into(needed, av)
    IN  IF ~sub.some THEN Panic("unexpected overflow")
        ELSE IF ~back.ok THEN Panic("should not be too large")
        ELSE Taken(create_money(mv, sub.val), create_amount(av, back.val))
take_less_takes_rest(mv, av, needed, remaining_money) ==
    LET sub  == checked_sub(remaining_money, needed)
        back == try_into(needed, av)
    IN  IF ~sub.some THEN Panic("unexpected overflow")
        ELSE IF ~back.ok THEN Panic("should not be too large")
        ELSE Taken(create_money(mv, sub.val), create_amount(av, sub.val))
take_less(mv, av, needed, remaining_money) ==
    LET sub  == checked_sub(remaining_money, needed)
        back == try_into(needed, av)
    IN  IF ~sub.some THEN Panic("unexpected overflow")
        ELSE IF ~back.ok THEN Panic("should not be too large")
        ELSE Taken(create_money(mv, sub.val), create_amount(av, back.val))

\* the Equal arm of take
take_equal_keeps_money(mv, av, needed, remaining_money) ==
    LET back == try_into(remaining_money, av)
    IN  IF ~back.ok THEN Panic("should not be too large")
        ELSE Taken(create_money(mv, remaining_money), create_amount(av, back.val))
take_equal(mv, av, needed, remaining_money) ==
    LET back == try_into(remaining_money, av)
    IN  IF ~back.ok THEN Panic("should not be too large")
        ELSE Taken(create_money(mv, zero(mv)), create_amount(av, back.val))

\* the Greater arm of take
take_greater_takes_needed(mv, av, needed, remaining_money) ==
    LET back == try_into(needed, av)
    IN  IF ~back.ok THEN Panic("should not be too large")
        ELSE Taken(create_money(mv, zero(mv)), create_amount(av, back.val))
take_greater(mv, av, needed, remaining_money) ==
    LET back == try_into(remaining_money, av)
    IN  IF ~back.ok THEN Panic("should not be too large")
        ELSE Taken(create_money(mv, zero(mv)), create_amount(av, back.val))

\* take(from: Money<MV, C>, amount: &Amount<AV, C>) -> Taken<MV, AV, C>
take(from, amount) ==
    LET needed          == money_needed(from.w, amount)
        remaining_money == from.v
    IN  IF needed < remaining_money
          THEN take_less(from.w, amount.w, needed, remaining_money)
        ELSE IF needed = remaining_money
          THEN take_equal(from.w, amount.w, needed, remaining_money)
        ELSE take_greater(from.w, amount.w, needed, remaining_money)

\* Change { money_back, left_to_pay }
Change(money_back, left_to_pay) ==
    [status |-> "ok", money_back |-> money_back, left_to_pay |-> left_to_pay]

\* PayWith::pay_with(self, with_money) for every cost
pay_with_keeps_taken(cost, with_money) ==
    LET t == take(with_money, cost.amount)
    IN  IF t.status = "panic" THEN t
        ELSE Change(t.remaining, create_cost(cost.kind, cost.amount.w, t.taken.v))
pay_with_keeps_money(cost, with_money) ==
    LET t == take(with_money, cost.amount)
    IN  IF t.status = "panic" THEN t
        ELSE LET left == checked_sub(cost.amount.v, t.taken.v)
             IN  IF ~left.some THEN Panic("overflow")
                 ELSE Change(IF left.val > 0 THEN with_money ELSE t.remaining,
                             create_cost(cost.kind, cost.amount.w, left.val))
pay_with(cost, with_money) ==
    LET t == take(with_money, cost.amount)
    IN  IF t.status = "panic" THEN t
        ELSE LET left == checked_sub(cost.amount.v, t.taken.v)
             IN  IF ~left.some THEN Panic("overflow")
                 ELSE Change(t.remaining, create_cost(cost.kind, cost.amount.w, left.val))

----------------------------------------------------------------------------
(* price.rs, money.rs: Money<C> and Price<C> hold a MinorUnit, which
   money.rs divides by a u128; the values drawn below are amounts of a few
   major units, far below its maximum *)

\* Money::in_minor_unit
in_minor_unit(minor_unit) == [minor_unit |-> minor_unit]

\* Money::new: value * 100, for amounts far below the maximum of MinorUnit
Money_new(value) == in_minor_unit(value * 100)

\* Price::new: amount * 100, for amounts far below the maximum of MinorUnit
Price_new(amount) == [minor_unit |-> amount * 100]

\* impl PartialEq<Money<C>> for Price<C>: price == money
eq(price, m) == price.minor_unit = m.minor_unit

\* impl PartialOrd<Money<C>> for Price<C>: partial_cmp of the minor units
partial_cmp_reversed(price, m) ==
    IF m.minor_unit < price.minor_unit THEN "Less"
    ELSE IF m.minor_unit = price.minor_unit THEN "Equal"
    ELSE "Greater"
partial_cmp(price, m) ==
    IF price.minor_unit < m.minor_unit THEN "Less"
    ELSE IF price.minor_unit = m.minor_unit THEN "Equal"
    ELSE "Greater"

\* price > money and price <= money, as PartialOrd derives them from partial_cmp
gt(price, m) == partial_cmp(price, m) = "Greater"
le(price, m) == partial_cmp(price, m) \in {"Less", "Equal"}
\* price < money and price >= money, derived the same way
lt(price, m) == partial_cmp(price, m) = "Less"
ge(price, m) == partial_cmp(price, m) \in {"Greater", "Equal"}

\* Money::pay(self, price) -> (Self, Price<C>)
pay_gives_no_change(self, price) ==
    IF gt(price, self)
      THEN <<[self EXCEPT !.minor_unit = 0],
             [price EXCEPT !.minor_unit = price.minor_unit - self.minor_unit]>>
      ELSE <<[self EXCEPT !.minor_unit = 0],
             [price EXCEPT !.minor_unit = 0]>>
pay_keeps_price(self, price) ==
    IF gt(price, self)
      THEN <<[self EXCEPT !.minor_unit = 0],
             [price EXCEPT !.minor_unit = price.minor_unit - self.minor_unit]>>
      ELSE <<[self EXCEPT !.minor_unit = self.minor_unit - price.minor_unit],
             price>>
pay(self, price) ==
    IF gt(price, self)
      THEN <<[self EXCEPT !.minor_unit = 0],
             [price EXCEPT !.minor_unit = price.minor_unit - self.minor_unit]>>
      ELSE <<[self EXCEPT !.minor_unit = self.minor_unit - price.minor_unit],
             [price EXCEPT !.minor_unit = 0]>>

\* Result<Money<C>, PaymentError<C>>
Ok(change) == [status |-> "Ok", change |-> change]
NotEnoughMoney(required, availible) ==
    [status |-> "NotEnoughMoney", required |-> required, availible |-> availible]

\* Money::try_pay(self, price) -> Result<Self, PaymentError<C>>
try_pay_strict(self, price) ==
    IF le(price, self) /\ price.minor_unit # self.minor_unit
      THEN Ok(pay(self, price)[1])
      ELSE NotEnoughMoney(price, self)
try_pay_spends(self, price) ==
    IF le(price, self)
      THEN Ok(pay(self, price)[1])
      ELSE NotEnoughMoney(price, pay(self, price)[1])
try_pay(self, price) ==
    IF le(price, self)
      THEN Ok(pay(self, price)[1])
      ELSE NotEnoughMoney(price, self)

\* the currencies: their alphabetic code and the number of minor units that
\* make one major unit (none, cents, mills)
IDR == [code |-> "IDR", scale |-> 1]
SEK == [code |-> "SEK", scale |-> 100]
KWD == [code |-> "KWD", scale |-> 1000]
Currencies == {IDR, SEK, KWD}

\* C::MINOR_UNIT
MINOR_UNIT(c) == c.scale

\* C::ALPHABETIC_CODE
ALPHABETIC_CODE(c) == c.code

\* the minor-unit values drawn for Money::in_minor_unit: the ones around
\* every whole amount
MinorValues == { v \in { 100 * k + d : k \in 0..MaxAmount, d \in {-1, 0, 1} } : v >= 0 }

----------------------------------------------------------------------------
(* MinorUnit at its full width. Money::fmt divides minor_unit by a u128, so
   MinorUnit is u128. A u128 is held here as 8 limbs of 16 bits, the least
   significant first, and its arithmetic is done limb by limb. *)

Base == 2^16

\* the u128 of a small number
U(x) == <<x % Base, (x \div Base) % Base, 0, 0, 0, 0, 0, 0>>

\* u128::MAX
U128_MAX == <<Base - 1, Base - 1, Base - 1, Base - 1, Base - 1, Base - 1, Base - 1, Base - 1>>

\* x * k + carry, limb by limb: the limbs of the result followed by the carry
\* out of the most significant limb
RECURSIVE mul_limbs(_, _, _)
mul_limbs(x, k, carry) ==
    IF x = <<>> THEN <<carry>>
    ELSE LET p == Head(x) * k + carry
         IN  <<p % Base>> \o mul_limbs(Tail(x), k, p \div Base)

\* x / k and x % k of a u128 by a small k, from the most significant limb down
RECURSIVE div_limbs(_, _)
div_limbs(x, k) ==
    IF x = <<>> THEN [quot |-> <<>>, rem |-> 0]
    ELSE LET hi  == div_limbs(Tail(x), k)
             cur == hi.rem * Base + Head(x)
         IN  [quot |-> <<cur \div k>> \o hi.quot, rem |-> cur % k]

\* value * k on u128: the product when it fits; when it does not, a build
\* with overflow checks panics and a build without them (the release
\* profile) keeps the low 128 bits
mul(value, k) ==
    LET r    == mul_limbs(value, k, 0)
        low  == SubSeq(r, 1, Len(value))
    IN  IF r[Len(r)] = 0
          THEN { [status |-> "ok", val |-> low] }
          ELSE { [status |-> "panic", msg |-> "attempt to multiply with overflow"],
                 [status |-> "ok", val |-> low] }

\* Money::new on any u128: Self::in_minor_unit(value * 100)
Money_new_u128(value) ==
    { IF r.status = "ok" THEN [status |-> "ok", money |-> in_minor_unit(r.val)] ELSE r :
        r \in mul(value, 100) }

\* Price::new on any u128: Price { minor_unit: amount * 100 }
Price_new_u128(amount) ==
    { IF r.status = "ok" THEN [status |-> "ok", price |-> [minor_unit |-> r.val]] ELSE r :
        r \in mul(amount, 100) }

\* the decimal digits of a number, as "{}" writes them
Digit(d) == <<"0", "1", "2", "3", "4", "5", "6", "7", "8", "9">>[d + 1]

RECURSIVE decimal_from(_)
decimal_from(x) ==
    IF \A i \in 1..Len(x) : x[i] = 0 THEN <<>>
    ELSE LET d == div_limbs(x, 10)
         IN  decimal_from(d.quot) \o <<Digit(d.rem)>>

decimal(x) == IF \A i \in 1..Len(x) : x[i] = 0 THEN <<"0">> ELSE decimal_from(x)

\* zero padding to a minimum width, as "{:0width}" does
RECURSIVE zero_pad(_, _)
zero_pad(digits, width) ==
    IF Len(digits) >= width THEN digits ELSE zero_pad(<<"0">> \o digits, width)

\* impl Display for Money<C>: "{}.{:02} {}" of minor_unit / MINOR_UNIT,
\* minor_unit % MINOR_UNIT and the alphabetic code, as the characters written
fmt(c, self) ==
    LET d == div_limbs(self.minor_unit, MINOR_UNIT(c))
    IN  decimal(d.quot) \o <<".">> \o zero_pad(decimal(U(d.rem)), 2)
          \o <<" ">> \o <<ALPHABETIC_CODE(c)>>

\* the u128 values drawn: the small ones, the ones around u128::MAX / 100
\* (the largest value Money::new holds times 100) and u128::MAX
WideValues ==
    { U(v) : v \in MinorValues }
      \cup { SubSeq(mul_limbs(div_limbs(U128_MAX, 100).quot, 1, d), 1, 8) : d \in {0, 1} }
      \cup { U128_MAX }

----------------------------------------------------------------------------
\* no call made yet
NoCall == [op |-> "none"]

(* The caller of money.rs and of Price::new: creates money and prices of a
   currency and displays the money *)

MoneyInit ==
    /\ currency \in Currencies
    /\ wallet = in_minor_unit(U(0))
    /\ receipt = NoCall
    /\ n = 0
    /\ money = create_money(8, 0)
    /\ b0 = 0
    /\ sumCost = 0
    /\ sumLeft = 0
    /\ chain = 0
    /\ last = NoCall

\* a panic ends the program
MoneyRunning ==
    n < MaxCalls /\ (IF receipt.op \in {"Money::new", "Price::new"}
                       THEN receipt.out.status = "ok" ELSE TRUE)

\* let money = Money::<C>::new(value);
MoneyNew(value) ==
    /\ MoneyRunning
    /\ \E out \in Money_new_u128(value) :
          /\ receipt' = [op |-> "Money::new", value |-> value, out |-> out]
          /\ wallet' = IF out.status = "ok" THEN out.money ELSE wallet
    /\ n' = n + 1
    /\ UNCHANGED <<libVars, currency>>

\* let money = Money::<C>::in_minor_unit(minor_unit);
InMinorUnit(minor_unit) ==
    /\ MoneyRunning
    /\ receipt' = [op |-> "in_minor_unit", value |-> minor_unit,
                   out |-> in_minor_unit(minor_unit)]
    /\ wallet' = in_minor_unit(minor_unit)
    /\ n' = n + 1
    /\ UNCHANGED <<libVars, currency>>

\* let price = Price::<C>::new(amount);
PriceNew(amount) ==
    /\ MoneyRunning
    /\ \E out \in Price_new_u128(amount) :
          receipt' = [op |-> "Price::new", value |-> amount, out |-> out]
    /\ n' = n + 1
    /\ UNCHANGED <<libVars, currency, wallet>>

\* format!("{}", money)
Show ==
    /\ MoneyRunning
    /\ receipt' = [op |-> "fmt", self |-> wallet, out |-> fmt(currency, wallet)]
    /\ n' = n + 1
    /\ UNCHANGED <<libVars, currency, wallet>>

MoneyNext ==
    \/ \E value \in WideValues : MoneyNew(value)
    \/ \E minor_unit \in WideValues : InMinorUnit(minor_unit)
    \/ \E amount \in WideValues : PriceNew(amount)
    \/ Show

MoneySpec == MoneyInit /\ [][MoneyNext]_vars

----------------------------------------------------------------------------
(* The caller of lib.rs: creates money, then takes amounts from it and pays
   costs with it, every call consuming the money and handing back what
   remains *)

Init ==
    /\ \E w \in Widths : \E v \in Values(w) : money = create_money(w, v)
    /\ b0 = money.v
    /\ sumCost = 0
    /\ sumLeft = 0
    /\ chain = 0
    /\ last = NoCall
    /\ wallet = Money_new(0)
    /\ receipt = NoCall
    /\ currency = SEK
    /\ n = 0

\* a panic ends the program
Running == n < MaxCalls /\ (IF last.op = "none" THEN TRUE ELSE last.out.status = "ok")

\* let Taken { remaining, taken } = take(money, &amount);
Take(av, a) ==
    /\ Running
    /\ LET amount == create_amount(av, a)
           out    == take(money, amount)
       IN  /\ last' = [op |-> "take", from |-> money, amount |-> amount, out |-> out]
           /\ money' = IF out.status = "ok" THEN out.remaining ELSE money
    /\ b0' = money'.v
    /\ sumCost' = 0
    /\ sumLeft' = 0
    /\ chain' = 0
    /\ n' = n + 1
    /\ UNCHANGED <<priceVars, currency>>

\* let Change { money_back: money, left_to_pay } = cost.pay_with(money);
PayWith(kind, av, a) ==
    /\ Running
    /\ LET cost == create_cost(kind, av, a)
           out  == pay_with(cost, money)
       IN  /\ last' = [op |-> "pay_with", cost |-> cost, with_money |-> money, out |-> out]
           /\ money' = IF out.status = "ok" THEN out.money_back ELSE money
           /\ sumLeft' = IF out.status = "ok" THEN sumLeft + out.left_to_pay.amount.v
                                              ELSE sumLeft
    /\ sumCost' = sumCost + a
    /\ chain' = chain + 1
    /\ n' = n + 1
    /\ UNCHANGED <<b0, priceVars, currency>>

Next ==
    \/ \E av \in Widths : \E a \in Values(av) : Take(av, a)
    \/ \E kind \in Kinds : \E av \in Widths : \E a \in Values(av) : PayWith(kind, av, a)

Spec == Init /\ [][Next]_vars

----------------------------------------------------------------------------
(* The caller of price.rs: creates money, then pays prices with it *)

PriceInit ==
    /\ wallet \in { Money_new(v) : v \in 0..MaxAmount }
                    \cup { in_minor_unit(m) : m \in MinorValues }
    /\ receipt = NoCall
    /\ currency = SEK
    /\ n = 0
    /\ money = create_money(8, 0)
    /\ b0 = 0
    /\ sumCost = 0
    /\ sumLeft = 0
    /\ chain = 0
    /\ last = NoCall

\* let (money, price) = money.pay(price);
Pay(amount) ==
    /\ n < MaxCalls
    /\ LET price == Price_new(amount)
           out   == pay(wallet, price)
       IN  /\ receipt' = [op |-> "pay", self |-> wallet, price |-> price, out |-> out]
           /\ wallet' = out[1]
    /\ n' = n + 1
    /\ UNCHANGED <<libVars, currency>>

\* match money.try_pay(price): the change on Ok, the money the error hands
\* back on Err
TryPay(amount) ==
    /\ n < MaxCalls
    /\ LET price == Price_new(amount)
           out   == try_pay(wallet, price)
       IN  /\ receipt' = [op |-> "try_pay", self |-> wallet, price |-> price, out |-> out]
           /\ wallet' = IF out.status = "Ok" THEN out.change ELSE out.availible
    /\ n' = n + 1
    /\ UNCHANGED <<libVars, currency>>

\* price == money, price < money, price <= money, price > money,
\* price >= money and price.partial_cmp(&money); the money stays in hand
Compare(amount) ==
    /\ n < MaxCalls
    /\ LET price == Price_new(amount)
       IN  receipt' = [op |-> "cmp", self |-> wallet, price |-> price,
                       out |-> [eq |-> eq(price, wallet), lt |-> lt(price, wallet),
                                le |-> le(price, wallet), gt |-> gt(price, wallet),
                                ge |-> ge(price, wallet),
                                partial_cmp |-> partial_cmp(price, wallet)]]
    /\ n' = n + 1
    /\ UNCHANGED <<libVars, currency, wallet>>

PriceNext ==
    \/ \E amount \in 0..MaxAmount : Pay(amount)
    \/ \E amount \in 0..MaxAmount : TryPay(amount)
    \/ \E amount \in 0..MaxAmount : Compare(amount)

PriceSpec == PriceInit /\ [][PriceNext]_vars

----------------------------------------------------------------------------
(* Either caller: lib.rs and price.rs are two revisions of the crate, a
   program is built against one of them, so a behaviour that has called one
   keeps to it *)

SettleInit == Init \/ PriceInit

SettleNext ==
    \/ receipt.op = "none" /\ Next
    \/ last.op = "none" /\ PriceNext

SettleSpec == SettleInit /\ [][SettleNext]_vars

----------------------------------------------------------------------------
(* Properties of take (lib.rs), checked under Spec *)

TakeCalled == last.op = "take"
SameWidth == last.from.w = last.amount.w

\* C1: for money B and an amount A of the same numeric width with
\* A.value <= B.value, take returns remaining.value = B.value - A.value and
\* taken.value = A.value; when A.value = B.value the remaining value is 0.
C1_TakeCovered ==
    (TakeCalled /\ SameWidth /\ last.amount.v <= last.from.v) =>
        /\ last.out.status = "ok"
        /\ last.out.remaining.v = last.from.v - last.amount.v
        /\ last.out.taken.v = last.amount.v
        /\ (last.amount.v = last.from.v => last.out.remaining.v = 0)

C1_Witness ==
    /\ TakeCalled /\ SameWidth
    /\ last.amount.v > 0
    /\ last.amount.v = last.from.v
    /\ last.out.status = "ok"

\* C2: for money B and an amount A (of any widths) with A.value > B.value,
\* take returns remaining.value = 0 and taken.value = B.value: what was
\* available, never the larger amount asked for.
C2_TakeShort ==
    (TakeCalled /\ last.amount.v > last.from.v) =>
        /\ last.out.status = "ok"
        /\ last.out.remaining.v = 0
        /\ last.out.taken.v = last.from.v
        /\ last.out.taken.v < last.amount.v

C2_Witness ==
    /\ TakeCalled
    /\ last.from.v > 0
    /\ last.amount.v > last.from.v
    /\ last.amount.v <= max_value(last.from.w)
    /\ last.out.status = "ok"

\* C3: for every pair of widths (money wider than, as wide as or narrower
\* than the amount) and every pair of values b and a, take returns
\* remaining = max(b - a, 0) and taken = min(a, b) as plain numbers, the
\* remaining money in the money's width and the taken amount in the amount's
\* width, each fitting its width.
C3_CrossWidth ==
    TakeCalled =>
        /\ last.out.status = "ok"
        /\ last.out.remaining = create_money(last.from.w, Max(last.from.v - last.amount.v, 0))
        /\ last.out.taken = create_amount(last.amount.w, Min(last.amount.v, last.from.v))
        /\ last.out.remaining.v <= max_value(last.from.w)
        /\ last.out.taken.v <= max_value(last.amount.w)

C3_Witness ==
    /\ TakeCalled
    /\ last.from.w > last.amount.w
    /\ last.from.v > max_value(last.amount.w)
    /\ last.amount.v > 0
    /\ last.out.status = "ok"
    /\ last.out.remaining.v > max_value(last.amount.w)

\* C4: when the amount's value exceeds the largest value the money's width
\* holds, the money needed is clamped to MV::max_value() and take returns
\* remaining = 0 and taken = the whole balance, in the amount's width and
\* strictly less than the amount asked for; also when the balance is
\* MV::max_value() itself.
C4_Clamp ==
    (TakeCalled /\ last.amount.v > max_value(last.from.w)) =>
        /\ money_needed(last.from.w, last.amount) = max_value(last.from.w)
        /\ last.out.status = "ok"
        /\ last.out.remaining.v = 0
        /\ last.out.taken = create_amount(last.amount.w, last.from.v)
        /\ last.out.taken.v < last.amount.v

C4_Witness ==
    /\ TakeCalled
    /\ last.amount.v > max_value(last.from.w)
    /\ last.from.v = max_value(last.from.w)
    /\ last.out.status = "ok"
    /\ last.out.taken.v = max_value(last.from.w)

\* C5: take is total: for every pair of widths and every pair of values it
\* returns a Taken; none of its panics ("unexpected overflow", "should not
\* be too large") is reached, and insufficient funds is no outcome of it.
C5_TakeTotal ==
    TakeCalled =>
        /\ last.out.status = "ok"
        /\ last.out.status \notin {"panic", "NotEnoughMoney"}

C5_Witness ==
    /\ TakeCalled
    /\ last.from.w > last.amount.w
    /\ last.from.v > max_value(last.amount.w)
    /\ last.amount.v = max_value(last.amount.w)
    /\ last.out.status = "ok"

\* C6: taking a zero amount from any money B (B = 0 included, any widths)
\* returns remaining.value = B.value and taken.value = 0.
C6_TakeZero ==
    (TakeCalled /\ last.amount.v = 0) =>
        /\ last.out.status = "ok"
        /\ last.out.remaining.v = last.from.v
        /\ last.out.taken.v = 0

C6_Witness ==
    /\ TakeCalled
    /\ last.amount.v = 0
    /\ last.from.v > 0
    /\ last.from.w # last.amount.w
    /\ last.out.status = "ok"

----------------------------------------------------------------------------
(* Properties of pay_with (lib.rs), checked under Spec *)

PayWithCalled == last.op = "pay_with"

\* C7: for a cost of value a and money of value b (any widths),
\* cost.pay_with(money) returns money_back = max(b - a, 0) in the money's
\* width and left_to_pay = max(a - b, 0) as a cost of the kind and the width
\* of the cost paid.
C7_PayWith ==
    PayWithCalled =>
        /\ last.out.status = "ok"
        /\ last.out.money_back =
              create_money(last.with_money.w,
                           Max(last.with_money.v - last.cost.amount.v, 0))
        /\ last.out.left_to_pay =
              create_cost(last.cost.kind, last.cost.amount.w,
                          Max(last.cost.amount.v - last.with_money.v, 0))
        /\ last.out.left_to_pay.amount.v =
              last.cost.amount.v - Min(last.cost.amount.v, last.with_money.v)

C7_Witness ==
    /\ PayWithCalled
    /\ last.with_money.w # last.cost.amount.w
    /\ last.with_money.v > 0
    /\ last.cost.amount.v > last.with_money.v
    /\ last.out.status = "ok"
    /\ last.out.left_to_pay.amount.v > 0

\* C8: after any sequence of costs paid one after another, each with the
\* money_back of the payment before it, starting from money of value b0: the
\* money in hand is max(b0 - (c1 + ... + cn), 0), the left_to_pay values sum
\* to max((c1 + ... + cn) - b0, 0), and the total paid never exceeds b0.
C8_ChainOfPayments ==
    chain >= 1 =>
        /\ money.v = Max(b0 - sumCost, 0)
        /\ sumLeft = Max(sumCost - b0, 0)
        /\ sumCost - sumLeft <= b0

C8_Witness ==
    /\ chain >= 2
    /\ PayWithCalled
    /\ b0 > last.with_money.v
    /\ last.with_money.v > 0
    /\ last.out.status = "ok"
    /\ last.out.left_to_pay.amount.v > 0
    /\ sumCost - sumLeft = b0

----------------------------------------------------------------------------
(* Properties of try_pay (price.rs), checked under PriceSpec *)

TryPayCalled == receipt.op = "try_pay"

\* C9: for money and a price with price.minor_unit <= money.minor_unit
\* (equality included), try_pay returns Ok(remaining) with
\* remaining.minor_unit = money.minor_unit - price.minor_unit.
C9_TryPayOk ==
    (TryPayCalled /\ receipt.price.minor_unit <= receipt.self.minor_unit) =>
        /\ receipt.out.status = "Ok"
        /\ receipt.out.change.minor_unit =
              receipt.self.minor_unit - receipt.price.minor_unit

C9_Witness ==
    /\ TryPayCalled
    /\ receipt.price.minor_unit > 0
    /\ receipt.price.minor_unit = receipt.self.minor_unit
    /\ receipt.out.status = "Ok"

\* C10: for money and a price with price.minor_unit > money.minor_unit,
\* try_pay returns NotEnoughMoney whose required is the price and whose
\* availible is the money, both as they were passed in: nothing of the
\* balance is consumed.
C10_TryPayErr ==
    (TryPayCalled /\ receipt.price.minor_unit > receipt.self.minor_unit) =>
        /\ receipt.out.status = "NotEnoughMoney"
        /\ receipt.out.required = receipt.price
        /\ receipt.out.availible = receipt.self
        /\ wallet = receipt.self

C10_Witness ==
    /\ TryPayCalled
    /\ receipt.self.minor_unit > 0
    /\ receipt.price.minor_unit > receipt.self.minor_unit
    /\ receipt.out.status = "NotEnoughMoney"

----------------------------------------------------------------------------
(* Properties of pay (price.rs), checked under PriceSpec *)

PayCalled == receipt.op = "pay"

\* C11: for money of minor-unit value b and a price of minor-unit value p,
\* pay returns (remaining_money, remaining_price) with
\* remaining_money = max(b - p, 0) and remaining_price = max(p - b, 0):
\* (0, 0) for the exact amount, (b - p, 0) for a lower price, (0, p - b) for
\* a higher price.
C11_Pay ==
    PayCalled =>
        /\ receipt.out[1].minor_unit =
              Max(receipt.self.minor_unit - receipt.price.minor_unit, 0)
        /\ receipt.out[2].minor_unit =
              Max(receipt.price.minor_unit - receipt.self.minor_unit, 0)
        /\ wallet = receipt.out[1]

C11_Witness ==
    /\ PayCalled
    /\ receipt.price.minor_unit > 0
    /\ receipt.self.minor_unit > receipt.price.minor_unit
    /\ receipt.out[1].minor_unit > 0
    /\ receipt.out[2].minor_unit = 0

----------------------------------------------------------------------------
(* Properties of money.rs and Price::new, checked under MoneySpec *)

\* the number of decimal digits a minor-unit scale implies: none for 1, two
\* for 100, three for 1000
RECURSIVE ScaleDigits(_)
ScaleDigits(scale) == IF scale <= 1 THEN 0 ELSE 1 + ScaleDigits(scale \div 10)

\* C12: Display of a Money writes "{major}.{minor} {code}" with
\* major = value div scale, minor = value mod scale, the minor part padded
\* with zeros to the number of digits the scale of the currency implies
\* (two for 100, three for 1000, none for 1), for every scale and value.
C12_Display ==
    receipt.op = "fmt" =>
        LET d == div_limbs(receipt.self.minor_unit, currency.scale)
            w == ScaleDigits(currency.scale)
        IN  receipt.out =
              decimal(d.quot) \o <<".">>
                \o (IF w = 0 THEN <<>> ELSE zero_pad(decimal(U(d.rem)), w))
                \o <<" ", currency.code>>

\* value times any of the scales fits a u128
FitsScaled(value) == mul_limbs(value, 1000, 0)[Len(value) + 1] = 0

\* C13: Money::new(v) takes v as whole major units and gives the Money of
\* v times the minor-unit scale of its currency (1, 100 or 1000) minor
\* units; Money::in_minor_unit(m) stores m as it is.
C13_NewScales ==
    /\ (receipt.op = "Money::new" /\ FitsScaled(receipt.value)) =>
          /\ receipt.out.status = "ok"
          /\ receipt.out.money.minor_unit =
                SubSeq(mul_limbs(receipt.value, currency.scale, 0), 1, Len(receipt.value))
    /\ receipt.op = "in_minor_unit" => receipt.out.minor_unit = receipt.value

\* the value a constructor returned is the exact product amount * 100
ExactProduct(value, minor_unit) == div_limbs(minor_unit, 100) = [quot |-> value, rem |-> 0]

\* C14: no operation returns a negative quantity or a value wrapped around
\* the limit of its storage type: Money::new and Price::new, take, pay_with,
\* pay and try_pay return the exact result or fail explicitly.
C14_NoSilentWrap ==
    /\ receipt.op = "Money::new" =>
          \/ receipt.out.status = "panic"
          \/ ExactProduct(receipt.value, receipt.out.money.minor_unit)
    /\ receipt.op = "Price::new" =>
          \/ receipt.out.status = "panic"
          \/ ExactProduct(receipt.value, receipt.out.price.minor_unit)
    /\ C3_CrossWidth
    /\ C7_PayWith
    /\ C9_TryPayOk
    /\ C10_TryPayErr
    /\ C11_Pay

----------------------------------------------------------------------------
(* Properties of the comparison of a Price with a Money (price.rs), checked
   under PriceSpec *)

\* C15: comparing a Price with a Money (==, <, <=, >, >=) is the numeric
\* comparison of their minor-unit values; partial_cmp always gives an
\* ordering, so exactly one of price > money and price <= money holds.
C15_Compare ==
    receipt.op = "cmp" =>
        LET p == receipt.price.minor_unit
            m == receipt.self.minor_unit
        IN  /\ receipt.out.eq <=> (p = m)
            /\ receipt.out.lt <=> (p < m)
            /\ receipt.out.le <=> (p <= m)
            /\ receipt.out.gt <=> (p > m)
            /\ receipt.out.ge <=> (p >= m)
            /\ receipt.out.partial_cmp \in {"Less", "Equal", "Greater"}
            /\ receipt.out.gt # receipt.out.le

C15_Witness ==
    /\ receipt.op = "cmp"
    /\ receipt.self.minor_unit > 0
    /\ receipt.price.minor_unit > receipt.self.minor_unit
    /\ receipt.out.gt
    /\ ~receipt.out.le

----------------------------------------------------------------------------
(* Properties of the subtraction in pay_with (lib.rs), checked under Spec *)

\* C17: for every pair of widths and every input, the amount take reports as
\* taken is at most the amount asked for, both in the width of the cost, so
\* the checked subtraction of pay_with does not underflow and its
\* expect("overflow") is not reached.
C17_TakenAtMostAsked ==
    PayWithCalled =>
        LET t == take(last.with_money, last.cost.amount)
        IN  /\ t.status = "ok"
            /\ t.taken.w = last.cost.amount.w
            /\ t.taken.v <= last.cost.amount.v
            /\ checked_sub(last.cost.amount.v, t.taken.v).some
            /\ last.out # Panic("overflow")
            /\ last.out.status = "ok"

C17_Witness ==
    /\ PayWithCalled
    /\ last.cost.amount.v > max_value(last.with_money.w)
    /\ last.with_money.v = max_value(last.with_money.w)
    /\ last.out.status = "ok"
    /\ last.out.left_to_pay.amount.v > 0

----------------------------------------------------------------------------
(* try_pay against pay (price.rs), checked under PriceSpec *)

\* C18: when try_pay succeeds, the remaining price it drops is zero and the
\* money it returns is the first component of pay for the same inputs: for
\* every money and price with price <= money,
\* pay(money, price) = (the money of try_pay, a Price of value 0).
C18_TryPayIsPay ==
    (TryPayCalled /\ receipt.price.minor_unit <= receipt.self.minor_unit) =>
        /\ receipt.out.status = "Ok"
        /\ pay(receipt.self, receipt.price) = <<receipt.out.change, [minor_unit |-> 0]>>

C18_Witness ==
    /\ TryPayCalled
    /\ receipt.price.minor_unit > 0
    /\ receipt.self.minor_unit > receipt.price.minor_unit
    /\ receipt.out.status = "Ok"
    /\ receipt.out.change.minor_unit > 0

----------------------------------------------------------------------------
(* Properties of every settlement (pay_with of lib.rs, pay of price.rs),
   checked under SettleSpec *)

\* C19: after every settlement at least one of the two results is zero: the
\* remaining money or the amount left to pay; both are zero exactly when the
\* cost equals the money.
C19_OneSideZero ==
    /\ PayWithCalled =>
          /\ last.out.status = "ok"
          /\ (last.out.money_back.v = 0 \/ last.out.left_to_pay.amount.v = 0)
          /\ (last.out.money_back.v = 0 /\ last.out.left_to_pay.amount.v = 0)
                <=> (last.cost.amount.v = last.with_money.v)
    /\ PayCalled =>
          /\ (receipt.out[1].minor_unit = 0 \/ receipt.out[2].minor_unit = 0)
          /\ (receipt.out[1].minor_unit = 0 /\ receipt.out[2].minor_unit = 0)
                <=> (receipt.price.minor_unit = receipt.self.minor_unit)

C19_Witness ==
    /\ PayWithCalled
    /\ last.cost.amount.w # last.with_money.w
    /\ last.with_money.v > 0
    /\ last.cost.amount.v = last.with_money.v
    /\ last.out.status = "ok"
    /\ last.out.money_back.v = 0
    /\ last.out.left_to_pay.amount.v = 0

\* C20: a settlement creates and loses no value: what leaves the money is
\* what leaves the cost, b - money_back = a - left_to_pay; for pay_with that
\* is also the taken value of its take, and take gives remaining + taken = b.
C20_Conservation ==
    /\ TakeCalled =>
          /\ last.out.status = "ok"
          /\ last.out.remaining.v + last.out.taken.v = last.from.v
    /\ PayWithCalled =>
          /\ last.out.status = "ok"
          /\ last.with_money.v - last.out.money_back.v
                = last.cost.amount.v - last.out.left_to_pay.amount.v
          /\ last.with_money.v - last.out.money_back.v
                = take(last.with_money, last.cost.amount).taken.v
    /\ PayCalled =>
          receipt.self.minor_unit - receipt.out[1].minor_unit
            = receipt.price.minor_unit - receipt.out[2].minor_unit

C20_Witness ==
    /\ PayCalled
    /\ receipt.self.minor_unit > 0
    /\ receipt.price.minor_unit > receipt.self.minor_unit
    /\ receipt.out[1].minor_unit = 0
    /\ receipt.out[2].minor_unit = receipt.price.minor_unit - receipt.self.minor_unit

----------------------------------------------------------------------------
(* The two settlements side by side: two callers, one built against lib.rs
   and one against price.rs, start with the same amount of money and are
   handed the same prices; each price is paid with pay_with by the first and
   then with pay by the second *)

AgreeInit ==
    /\ \E w \in Widths : \E m \in MinorValues :
          /\ m <= max_value(w)
          /\ money = create_money(w, m)
          /\ wallet = in_minor_unit(m)
    /\ b0 = money.v
    /\ sumCost = 0
    /\ sumLeft = 0
    /\ chain = 0
    /\ last = NoCall
    /\ receipt = NoCall
    /\ currency = SEK
    /\ n = 0

\* both callers have paid the prices handed out so far
BothPaid == n % 2 = 0

AgreeNext ==
    \/ /\ BothPaid
       /\ \E kind \in Kinds : \E av \in Widths : \E amount \in 0..MaxAmount :
             /\ Price_new(amount).minor_unit <= max_value(av)
             /\ PayWith(kind, av, Price_new(amount).minor_unit)
    \/ /\ ~BothPaid
       /\ \E amount \in 0..MaxAmount :
             /\ Price_new(amount).minor_unit = last.cost.amount.v
             /\ Pay(amount)

AgreeSpec == AgreeInit /\ [][AgreeNext]_vars

\* C21: the two settlements agree: for every pair of minor-unit values
\* (b, p) that both hold, pay of price.rs returns the same remaining money
\* and the same remaining cost, as numbers, as pay_with of lib.rs run on the
\* same values.
C21_PayAgreesWithPayWith ==
    (BothPaid /\ n > 0) =>
        /\ receipt.self.minor_unit = last.with_money.v
        /\ receipt.price.minor_unit = last.cost.amount.v
        /\ last.out.status = "ok"
        /\ receipt.out[1].minor_unit = last.out.money_back.v
        /\ receipt.out[2].minor_unit = last.out.left_to_pay.amount.v
        /\ wallet.minor_unit = money.v

C21_Witness ==
    /\ BothPaid /\ n > 0
    /\ last.with_money.w # last.cost.amount.w
    /\ last.with_money.v > 0
    /\ last.cost.amount.v > last.with_money.v
    /\ receipt.self.minor_unit = last.with_money.v
    /\ receipt.price.minor_unit = last.cost.amount.v
    /\ receipt.out[2].minor_unit > 0
    /\ last.out.status = "ok"

====
